---- MODULE Spec2Model ----
(***************************************************************************)
(* Pluck: the download orchestrator (handleDownload), its progress         *)
(* tracker (the downloads map) and the page-extraction entry point         *)
(* (handlePluck) of the App component.                                     *)
(*                                                                         *)
(* The App component keeps isDownloading, downloads and isLoading in React *)
(* state.  A handler reads the value its closure captured at the render    *)
(* that created it; a setter only schedules the value for the next render. *)
(* The model therefore keeps, for isDownloading, both the value held by    *)
(* React (isDownloading) and the value the mounted handlers and buttons    *)
(* were rendered with (rendered); Render commits the former to the latter. *)
(* downloads is only ever written through setDownloads, with updater       *)
(* functions or a whole new map, so its React-held value is what the       *)
(* model tracks.                                                           *)
(*                                                                         *)
(* Each await of handleDownload is a suspension point: the code between    *)
(* two awaits is one action, named after the call whose settlement         *)
(* resumes it.                                                             *)
(***************************************************************************)
EXTENDS Integers, Sequences, FiniteSets, TLC

\* ------------------------------------------------------------------ bounds
\* accepted start requests
MaxJobs == 2
\* page-extraction requests waiting for their fetch at the same time
MaxPlucks == 2

JobIds == 1..MaxJobs

\* ------------------------------------------------------------------ inputs
\* A URL text is a sequence of tokens: the scheme, the host, then the path
\* tokens: "/", a name, or an extension with its dot.
UrlImage == <<"https:", "x.com", "/", "a", ".jpg">>
UrlDir == <<"https:", "x.com", "/", "m", "/">>
UrlBad == <<"https:", "[bad", "/", "b", ".jpg">>

\* (url, tabName) pairs a download button can be pressed with
DownloadInputs == {<<UrlImage, "Image">>, <<UrlDir, "Audio">>, <<UrlBad, "Image">>}

Urls == {in[1] : in \in DownloadInputs}

\* (totalBytesWritten, totalBytesExpectedToWrite) pairs of a progress event;
\* the transfer reports -1 when the total is unknown
ProgressEvents == {<<0, 2>>, <<1, -1>>}

\* The media-library permission as the system holds it: granted, refused
\* but askable, refused for good.
OsPermissions == {"granted", "askable", "blocked"}

\* the PermissionResponse the media library gives for it
PermissionResponse(os) ==
    [status |-> IF os = "granted" THEN "granted" ELSE "denied",
     canAskAgain |-> os # "blocked"]

VARIABLES
    isDownloading,  \* React state isDownloading: the value React holds
    rendered,       \* isDownloading as captured by the mounted handlers
    downloads,      \* React state downloads: url -> progress
    isLoading,      \* React state isLoading
    osPermission,   \* the media-library permission the system holds
    nJobs,          \* number of accepted start requests
    pc,             \* per job: the await it is suspended at
    url,            \* per job: the url argument
    tabName,        \* per job: the tabName argument
    asset,          \* per job: the local variable asset (0 = null)
    xfer,           \* per job: the transfer ("none", "open", "result", "null", "threw")
    result,         \* per job: how it ended: "none" while it has not, "Succeeded",
                    \* "PermissionDenied", "PermissionBlocked", "Failed" (the
                    \* handler threw), "CallThrew" (an awaited call threw)
    alerts,         \* per job: the Alert.alert calls it made
    warned,         \* per job: the console.warn of the album catch ran
    assets,         \* media library: registered assets
    albums,         \* media library: album name -> assets
    files,          \* document directory: names that hold a file
    plucksInFlight, \* handlePluck calls waiting for their fetch
    media,          \* React state media: images, audios, videos
    page,           \* the response the media set was built from
    failedAlerts,   \* 'Failed to pluck' alerts shown since the last submission
    newestPending,  \* the handlePluck call submitted last waits for its fetch
    staleMedia      \* the media set was last written by a call other than
                    \* the one submitted last

vars == <<isDownloading, rendered, downloads, isLoading, osPermission, nJobs, pc,
          url, tabName, asset, xfer, result, alerts, warned, assets, albums,
          files, plucksInFlight, media, page, failedAlerts, newestPending,
          staleMedia>>

jobVars == <<nJobs, pc, url, tabName, asset, xfer, result, alerts, warned>>
libVars == <<assets, albums, files>>
pluckVars == <<isLoading, plucksInFlight, media, page, failedAlerts,
               newestPending, staleMedia>>

\* ------------------------------------------------------------- pure helpers
NoUrl == <<>>
EmptyTracker == [u \in {} |-> 0]

IMAGE_EXTENSIONS == {".jpg", ".jpeg", ".png", ".gif", ".bmp", ".webp", ".svg"}
AUDIO_EXTENSIONS == {".mp3", ".wav", ".ogg", ".aac", ".m4a"}
VIDEO_EXTENSIONS == {".mp4", ".mov", ".avi", ".webm", ".mkv", ".flv"}

\* String.prototype.toLowerCase on a token
ToLowerCaseIdentity(tok) == tok

ToLowerCase(tok) ==
    CASE tok = ".JPG" -> ".jpg"
      [] tok = ".MKV" -> ".mkv"
      [] tok = ".Mp3" -> ".mp3"
      [] OTHER -> tok

\* new URL(url): throws unless the text has a scheme and a well-formed host
UrlParses(u) ==
    /\ Len(u) >= 2
    /\ u[1] \in {"http:", "https:"}
    /\ u[2] \notin {"", "/", "[bad"}

\* new URL(url).pathname: the tokens after the host, "/" when there are none
Pathname(u) == IF Len(u) > 2 THEN SubSeq(u, 3, Len(u)) ELSE <<"/">>

\* index of the last "/" of a pathname (a pathname starts with "/")
RECURSIVE LastSlash(_, _)
LastSlash(p, i) == IF i = 0 \/ p[i] = "/" THEN i ELSE LastSlash(p, i - 1)

\* pathname.split('/').pop(): the tokens after the last "/"
LastSegment(p) == SubSeq(p, LastSlash(p, Len(p)) + 1, Len(p))

\* pathname.split('/').pop() || `pluck-download-${Date.now()}`
Filename(u) ==
    IF LastSegment(Pathname(u)) = <<>> THEN <<"pluck-download-", "now">>
    ELSE LastSegment(Pathname(u))

\* getDirectMediaCategory(url)
GetDirectMediaCategory(u) ==
    IF ~UrlParses(u) THEN "null"
    ELSE LET end == ToLowerCase(Pathname(u)[Len(Pathname(u))]) IN
         IF end \in IMAGE_EXTENSIONS THEN "Image"
         ELSE IF end \in AUDIO_EXTENSIONS THEN "Audio"
         ELSE IF end \in VIDEO_EXTENSIONS THEN "Video"
         ELSE "null"

\* `Pluck/${tabName}`
AlbumName(t) == <<"Pluck/", t>>

\* A JavaScript number that is the quotient of two integers, kept as the
\* fraction in lowest terms with a positive denominator, so that equal
\* numbers are equal values; denominator 0 stands for NaN (numerator 0) and
\* for +Infinity and -Infinity (numerator 1 and -1).
Sign(n) == IF n > 0 THEN 1 ELSE IF n < 0 THEN 0 - 1 ELSE 0

Abs(n) == IF n < 0 THEN 0 - n ELSE n

RECURSIVE Gcd(_, _)
Gcd(a, b) == IF b = 0 THEN a ELSE Gcd(b, a % b)

JsDivide(w, e) ==
    IF e = 0 THEN [num |-> Sign(w), den |-> 0]
    ELSE LET g == Gcd(Abs(w), Abs(e)) IN
         [num |-> Sign(e) * (w \div g), den |-> Abs(e) \div g]

ProgressZero == [num |-> 0, den |-> 1]

\* prev => ({ ...prev, [url]: { progress: p } })
SetEntry(prev, u, p) ==
    [k \in (DOMAIN prev) \cup {u} |-> IF k = u THEN p ELSE prev[k]]

\* prev => { const n = { ...prev }; delete n[url]; return n; }
DeleteEntry(prev, u) == [k \in (DOMAIN prev) \ {u} |-> prev[k]]

\* ------------------------------------------------------------ the parser
\* Markup is a sequence of opening tags; a tag is a name and its attributes
\* in the order they are written; an attribute is a pair <<name, value>>,
\* the value a sequence of tokens.  The value of a "style" attribute is the
\* reference inside background-image: url(...).  In a srcset value the
\* tokens "," and " " separate candidates and descriptors.
RECURSIVE Concat(_)
\* the concatenation of a sequence of sequences
Concat(ss) == IF ss = <<>> THEN <<>> ELSE Head(ss) \o Concat(Tail(ss))

\* Set.add on a Set kept as the sequence of its elements in insertion order
SetAdd(set, x) == IF \E i \in 1..Len(set) : set[i] = x THEN set ELSE Append(set, x)

RECURSIVE SetAddAll(_, _)
SetAddAll(set, xs) ==
    IF xs = <<>> THEN set ELSE SetAddAll(SetAdd(set, Head(xs)), Tail(xs))

\* the keys of extensionToSetMap in insertion order, and the set each maps to
PARSER_IMAGE_EXTENSIONS == <<"jpe?g", "png", "gif", "webp", "svg", "bmp">>
PARSER_AUDIO_EXTENSIONS == <<"mp3", "wav", "ogg", "aac", "m4a">>
PARSER_VIDEO_EXTENSIONS == <<"mp4", "mov", "avi", "webm", "mkv", "flv">>
AllExtensions ==
    PARSER_IMAGE_EXTENSIONS \o PARSER_AUDIO_EXTENSIONS \o PARSER_VIDEO_EXTENSIONS

ExtensionToSetMap(key) ==
    IF \E i \in 1..Len(PARSER_IMAGE_EXTENSIONS) : PARSER_IMAGE_EXTENSIONS[i] = key
    THEN "images"
    ELSE IF \E i \in 1..Len(PARSER_AUDIO_EXTENSIONS) : PARSER_AUDIO_EXTENSIONS[i] = key
    THEN "audios"
    ELSE "videos"

\* new RegExp(`^${key}$`).test(ext), ext an extension token in lower case
KeyTest(key, ext) ==
    CASE key = "jpe?g" -> ext \in {".jpg", ".jpeg"}
      [] key = "png" -> ext = ".png"
      [] key = "gif" -> ext = ".gif"
      [] key = "webp" -> ext = ".webp"
      [] key = "svg" -> ext = ".svg"
      [] key = "bmp" -> ext = ".bmp"
      [] key = "mp3" -> ext = ".mp3"
      [] key = "wav" -> ext = ".wav"
      [] key = "ogg" -> ext = ".ogg"
      [] key = "aac" -> ext = ".aac"
      [] key = "m4a" -> ext = ".m4a"
      [] key = "mp4" -> ext = ".mp4"
      [] key = "mov" -> ext = ".mov"
      [] key = "avi" -> ext = ".avi"
      [] key = "webm" -> ext = ".webm"
      [] key = "mkv" -> ext = ".mkv"
      [] key = "flv" -> ext = ".flv"
      [] OTHER -> FALSE

\* tokens that are a dot followed by letters and digits
ExtensionTokens ==
    IMAGE_EXTENSIONS \cup AUDIO_EXTENSIONS \cup VIDEO_EXTENSIONS
        \cup {".JPG", ".MKV", ".Mp3", ".php"}

\* url.match(/\.([a-z0-9]+)$/i): the extension token the text ends with, or
\* "" when it ends with none
ExtensionMatch(u) ==
    IF u # <<>> /\ u[Len(u)] \in ExtensionTokens THEN u[Len(u)] ELSE ""

\* the text ends with \.(k1|k2|...) for the keys given, letter case ignored
EndsWithExtension(u, keys) ==
    /\ ExtensionMatch(u) # ""
    /\ \E i \in 1..Len(keys) : KeyTest(keys[i], ToLowerCase(ExtensionMatch(u)))

\* part.trim(): without the blanks at both ends
RECURSIVE TrimStart(_)
TrimStart(p) == IF p # <<>> /\ Head(p) = " " THEN TrimStart(Tail(p)) ELSE p

RECURSIVE TrimEnd(_)
TrimEnd(p) ==
    IF p # <<>> /\ p[Len(p)] = " " THEN TrimEnd(SubSeq(p, 1, Len(p) - 1)) ELSE p

\* a trim of the end only
TrimEndOnly(p) == TrimEnd(p)

Trim(p) == TrimEnd(TrimStart(p))

\* text.split(sep)[0]: the tokens before the first separator
RECURSIVE FirstField(_, _)
FirstField(p, sep) ==
    IF p = <<>> \/ Head(p) = sep THEN <<>>
    ELSE <<Head(p)>> \o FirstField(Tail(p), sep)

\* text.split(sep): the fields between the separators
RECURSIVE Split(_, _)
Split(p, sep) ==
    LET first == FirstField(p, sep) IN
    IF Len(first) = Len(p) THEN <<first>>
    ELSE <<first>> \o Split(SubSeq(p, Len(first) + 2, Len(p)), sep)

\* parseSrcset(srcsetValue)
RECURSIVE ParseSrcsetParts(_, _)
ParseSrcsetParts(parts, sources) ==
    IF parts = <<>> THEN sources
    ELSE LET u == FirstField(Trim(Head(parts)), " ") IN
         ParseSrcsetParts(Tail(parts), IF u # <<>> THEN SetAdd(sources, u) ELSE sources)

ParseSrcset(srcsetValue) == ParseSrcsetParts(Split(srcsetValue, ","), <<>>)

\* The matches of combinedRegex in one tag, from attribute k on, for the
\* patterns that are not tied to a tag name: srcsetPattern (group 2) and
\* stylePattern (group 5).
RECURSIVE AttrMatches(_, _)
AttrMatches(attrs, k) ==
    IF k > Len(attrs) THEN <<>>
    ELSE LET name == attrs[k][1]
             value == attrs[k][2]
         IN (IF name \in {"srcset", "data-srcset"} /\ value # <<>>
             THEN <<[group |-> 2, value |-> value]>>
             ELSE IF name = "style" /\ EndsWithExtension(value, PARSER_IMAGE_EXTENSIONS)
             THEN <<[group |-> 5, value |-> value]>>
             ELSE <<>>)
            \o AttrMatches(attrs, k + 1)

\* [^>]+? is lazy: the first attribute of the tag, from k on, that the
\* pattern accepts; 0 when there is none
RECURSIVE FirstAttr(_, _, _, _)
FirstAttr(attrs, k, names, keys) ==
    IF k > Len(attrs) THEN 0
    ELSE IF /\ attrs[k][1] \in names
            /\ attrs[k][2] # <<>>
            /\ (keys # <<>> => EndsWithExtension(attrs[k][2], keys))
    THEN k
    ELSE FirstAttr(attrs, k + 1, names, keys)

\* The matches of combinedRegex in one tag.  tagSrcPattern (group 1) and
\* anchorPattern (group 3) start at the tag's "<" and run to the end of the
\* attribute they capture: the attributes before it are inside the match
\* and are not scanned again.  anchorPattern starts with "<a" and so also
\* applies to an audio tag that tagSrcPattern did not match.
TagMatches(e) ==
    LET i == IF e.tag \in {"img", "video", "audio", "source"}
             THEN FirstAttr(e.attrs, 1, {"src", "data-src", "poster", "data-lazy-src"}, <<>>)
             ELSE 0
        j == IF e.tag \in {"a", "audio"} THEN FirstAttr(e.attrs, 1, {"href"}, AllExtensions) ELSE 0
    IN IF i > 0
       THEN <<[group |-> 1, value |-> e.attrs[i][2]]>> \o AttrMatches(e.attrs, i + 1)
       ELSE IF j > 0
       THEN <<[group |-> 3, value |-> e.attrs[j][2]]>> \o AttrMatches(e.attrs, j + 1)
       ELSE AttrMatches(e.attrs, 1)

\* the successive results of combinedRegex.exec(html)
Matches(html) == Concat([k \in 1..Len(html) |-> TagMatches(html[k])])

EmptyMedia == [images |-> <<>>, audios |-> <<>>, videos |-> <<>>]

\* no response
NoPage == [html |-> <<>>, url |-> <<>>]

\* the for-in loop over extensionToSetMap: the set of the first key that
\* matches ext, "" when no key does
RECURSIVE FirstKeySet(_, _)
FirstKeySet(ext, k) ==
    IF k > Len(AllExtensions) THEN ""
    ELSE IF KeyTest(AllExtensions[k], ext) THEN ExtensionToSetMap(AllExtensions[k])
    ELSE FirstKeySet(ext, k + 1)

\* one turn of the while loop of extractMedia
MatchStep(sets, m) ==
    IF m.group = 2
    THEN [sets EXCEPT !.images = SetAddAll(@, ParseSrcset(m.value))]
    ELSE LET extensionMatch == ExtensionMatch(m.value)
             set == IF extensionMatch = "" THEN ""
                    ELSE FirstKeySet(ToLowerCase(extensionMatch), 1)
         IN IF set = "" THEN sets ELSE [sets EXCEPT ![set] = SetAdd(@, m.value)]

RECURSIVE MatchLoop(_, _)
MatchLoop(sets, ms) ==
    IF ms = <<>> THEN sets ELSE MatchLoop(MatchStep(sets, Head(ms)), Tail(ms))

\* sets that outlive the call: they hold what the media state holds
KeptSets == media

\* imageSources, audioSources, videoSources: three new Sets in every call
NewSets == EmptyMedia

\* extractMedia(html): combinedRegex is built in the call, its lastIndex
\* starts at 0
ExtractMedia(html) == MatchLoop(NewSets, Matches(html))

\* ---------------------------------------------------------- resolution
\* new URL(relativeUrl, baseUrl) throws: an absolute reference with a
\* malformed host, or a relative one with a base that does not parse
NewUrlThrows(relativeUrl, baseUrl) ==
    IF relativeUrl[1] \in {"http:", "https:", "ftp:"}
    THEN Len(relativeUrl) < 2 \/ relativeUrl[2] \in {"", "/", "[bad"}
    ELSE ~UrlParses(baseUrl)

\* the path of the base up to and including its last "/"
Directory(p) == SubSeq(p, 1, LastSlash(p, Len(p)))

\* new URL(relativeUrl, baseUrl).href
NewUrlHref(relativeUrl, baseUrl) ==
    IF relativeUrl[1] \in {"http:", "https:", "ftp:"} THEN relativeUrl
    ELSE IF relativeUrl[1] = "/" THEN <<baseUrl[1], baseUrl[2]>> \o relativeUrl
    ELSE <<baseUrl[1], baseUrl[2]>> \o Directory(Pathname(baseUrl)) \o relativeUrl

\* `https:${relativeUrl}` for a reference that starts with "//"; in a URL
\* text the scheme token is followed by the host, the "//" between them
\* being implied
ProtocolRelativeOfBase(baseUrl, relativeUrl) == <<baseUrl[1]>> \o Tail(relativeUrl)

ProtocolRelative(baseUrl, relativeUrl) == <<"https:">> \o Tail(relativeUrl)

\* resolveUrl(baseUrl, relativeUrl); '' is the empty text
ResolveUrl(baseUrl, relativeUrl) ==
    IF relativeUrl = <<>> THEN <<>>
    ELSE IF relativeUrl[1] \in {"http:", "https:"} THEN relativeUrl
    ELSE IF relativeUrl[1] = "//" THEN ProtocolRelative(baseUrl, relativeUrl)
    ELSE IF NewUrlThrows(relativeUrl, baseUrl) THEN <<>>
    ELSE NewUrlHref(relativeUrl, baseUrl)

\* list.map(url => resolveUrl(baseUrl, url)).filter(Boolean)
ResolveAll(list, baseUrl) ==
    SelectSeq([i \in 1..Len(list) |-> ResolveUrl(baseUrl, list[i])],
              LAMBDA u : u # <<>>)

\* the media set handlePluck builds from a fetched page
PluckedMedia(html, baseUrl) ==
    LET extracted == ExtractMedia(html) IN
    [images |-> ResolveAll(extracted.images, baseUrl),
     audios |-> ResolveAll(extracted.audios, baseUrl),
     videos |-> ResolveAll(extracted.videos, baseUrl)]

\* the media set handlePluck builds from a direct media link
DirectMediaEverywhere(link, directMediaCategory) ==
    [images |-> <<link>>, audios |-> <<link>>, videos |-> <<link>>]

DirectMedia(link, directMediaCategory) ==
    [images |-> IF directMediaCategory = "Image" THEN <<link>> ELSE <<>>,
     audios |-> IF directMediaCategory = "Audio" THEN <<link>> ELSE <<>>,
     videos |-> IF directMediaCategory = "Video" THEN <<link>> ELSE <<>>]

\* the value setIsDownloading is called with in the finally block
FinallyLockHeld == TRUE

FinallyLock == FALSE

\* `if (isDownloading)` of a handler created by the last render
BusyGuard(seen) == seen

\* `permissions.status !== 'granted'`
NotGranted(p) == p.status # "granted"

\* `permissions.canAskAgain`
CanAskAlways(p) == TRUE

CanAsk(p) == p.canAskAgain

\* `status !== 'granted'` on the answer of the prompt
PromptRefusedNever(status) == FALSE

PromptRefused(status) == status # "granted"

\* `if (!result) throw ...`
NoResultNever(outcome) == FALSE

NoResult(outcome) == outcome = "null"

\* the inner catch around the album calls swallows the error
AlbumErrorRethrown == FALSE

AlbumErrorCaught == TRUE

\* the alerts
AlertPleaseWait == "Please wait"
AlertGrant == "Permission Required: please grant permission"
AlertSettings == "Permission Required: go to device settings"
AlertSuccess == "Success!"
AlertFailed == "Download Failed"

\* the alerts of a job that returns from a refused permission: the branch's
\* own alert; the return skips the catch block
PermissionExitAlertsAndCatch(alert) == <<alert, AlertFailed>>

PermissionExitAlerts(alert) == <<alert>>

\* ------------------------------------------------------ orchestrator states
Occupied == {"Downloading", "Finalizing", "Filing"}
Terminal == {"Succeeded", "Failed"}

JobState(j) ==
    CASE pc[j] = "idle" -> "Pending"
      [] pc[j] \in {"getPermissionsAsync", "requestPermissionsAsync"} -> "RequestingPermission"
      [] pc[j] = "downloadAsync" -> "Downloading"
      [] pc[j] = "createAssetAsync" -> "Finalizing"
      [] pc[j] \in {"getAlbumAsync", "createAlbumAsync", "addAssetsToAlbumAsync"} -> "Filing"
      [] pc[j] = "done" -> IF result[j] = "Succeeded" THEN "Succeeded" ELSE "Failed"

InFlight(j) == pc[j] \notin {"idle", "done"}

\* ---------------------------------------------------------------- Init
Init ==
    /\ isDownloading = FALSE
    /\ rendered = FALSE
    /\ downloads = EmptyTracker
    /\ isLoading = FALSE
    /\ osPermission = "askable"
    /\ nJobs = 0
    /\ pc = [j \in JobIds |-> "idle"]
    /\ url = [j \in JobIds |-> NoUrl]
    /\ tabName = [j \in JobIds |-> ""]
    /\ asset = [j \in JobIds |-> 0]
    /\ xfer = [j \in JobIds |-> "none"]
    /\ result = [j \in JobIds |-> "none"]
    /\ alerts = [j \in JobIds |-> <<>>]
    /\ warned = [j \in JobIds |-> FALSE]
    /\ assets = {}
    /\ albums = [n \in {} |-> {}]
    /\ files = {}
    /\ plucksInFlight = 0
    /\ media = EmptyMedia
    /\ page = NoPage
    /\ failedAlerts = 0
    /\ newestPending = FALSE
    /\ staleMedia = FALSE

\* ------------------------------------------------------- exits of a job
\* The way out of handleDownload: the job's last alerts, then the finally
\* block deletes the tracker entry of the job's url and writes the lock.
Finish(j, res, newAlerts) ==
    /\ pc' = [pc EXCEPT ![j] = "done"]
    /\ result' = [result EXCEPT ![j] = res]
    /\ alerts' = [alerts EXCEPT ![j] = @ \o newAlerts]
    /\ downloads' = DeleteEntry(downloads, url[j])
    /\ isDownloading' = FinallyLock

\* the outer catch block, then finally
Catch(j, res) == Finish(j, res, <<AlertFailed>>)

\* the success alert after the album block, then finally
Succeed(j) == Finish(j, "Succeeded", <<AlertSuccess>>)

\* the permission was refused: alert, setIsDownloading(false), return, and
\* the finally block on the way out
PermissionExit(j, res, alert) == Finish(j, res, PermissionExitAlerts(alert))

\* ------------------------------------------------------------- actions
\* React renders the committed state: handlers and buttons are re-created
\* with the current isDownloading.
Render ==
    /\ rendered # isDownloading
    /\ rendered' = isDownloading
    /\ UNCHANGED <<isDownloading, downloads, osPermission>>
    /\ UNCHANGED jobVars
    /\ UNCHANGED libVars
    /\ UNCHANGED pluckVars

\* The user changes the permission in the device settings.
SettingsChange(os) ==
    /\ os # osPermission
    /\ osPermission' = os
    /\ UNCHANGED <<isDownloading, rendered, downloads>>
    /\ UNCHANGED jobVars
    /\ UNCHANGED libVars
    /\ UNCHANGED pluckVars

\* handleDownload(url, tabName) of a handler that sees the lock taken: the
\* 'Please wait' alert and return, no state is written
HandleDownloadBusy ==
    /\ BusyGuard(rendered)
    /\ UNCHANGED vars

\* handleDownload(url, tabName) up to its first await
HandleDownload(u, t) ==
    /\ ~BusyGuard(rendered)
    /\ nJobs < MaxJobs
    /\ LET j == nJobs + 1 IN
        /\ nJobs' = j
        /\ isDownloading' = TRUE
        /\ pc' = [pc EXCEPT ![j] = "getPermissionsAsync"]
        /\ url' = [url EXCEPT ![j] = u]
        /\ tabName' = [tabName EXCEPT ![j] = t]
    /\ UNCHANGED <<rendered, downloads, osPermission, asset, xfer, result, alerts,
                   warned>>
    /\ UNCHANGED libVars
    /\ UNCHANGED pluckVars

\* the target name, the transfer and the first tracker entry
OpenTransfer(j) ==
    IF UrlParses(url[j])
    THEN /\ pc' = [pc EXCEPT ![j] = "downloadAsync"]
         /\ xfer' = [xfer EXCEPT ![j] = "open"]
         /\ downloads' = SetEntry(downloads, url[j], ProgressZero)
         /\ UNCHANGED <<isDownloading, result, alerts>>
    ELSE /\ Catch(j, "Failed")
         /\ UNCHANGED xfer

\* await MediaLibrary.getPermissionsAsync() returns
GetPermissionsAsyncReturns(j) ==
    /\ pc[j] = "getPermissionsAsync"
    /\ LET permissions == PermissionResponse(osPermission) IN
       IF NotGranted(permissions)
       THEN IF CanAsk(permissions)
            THEN /\ pc' = [pc EXCEPT ![j] = "requestPermissionsAsync"]
                 /\ UNCHANGED <<isDownloading, downloads, xfer, result, alerts>>
            ELSE /\ PermissionExit(j, "PermissionBlocked", AlertSettings)
                 /\ UNCHANGED xfer
       ELSE OpenTransfer(j)
    /\ UNCHANGED <<rendered, osPermission, nJobs, url, tabName, asset,
                   warned>>
    /\ UNCHANGED libVars
    /\ UNCHANGED pluckVars

GetPermissionsAsyncThrows(j) ==
    /\ pc[j] = "getPermissionsAsync"
    /\ Catch(j, "CallThrew")
    /\ UNCHANGED <<rendered, osPermission, nJobs, url, tabName, asset,
                   xfer, warned>>
    /\ UNCHANGED libVars
    /\ UNCHANGED pluckVars

\* await MediaLibrary.requestPermissionsAsync() returns: the user answered
\* the prompt, and the system holds the answer
RequestPermissionsAsyncReturns(j, os) ==
    /\ pc[j] = "requestPermissionsAsync"
    /\ osPermission' = os
    /\ IF PromptRefused(PermissionResponse(os).status)
       THEN /\ PermissionExit(j, "PermissionDenied", AlertGrant)
            /\ UNCHANGED xfer
       ELSE OpenTransfer(j)
    /\ UNCHANGED <<rendered, nJobs, url, tabName, asset, warned>>
    /\ UNCHANGED libVars
    /\ UNCHANGED pluckVars

RequestPermissionsAsyncThrows(j) ==
    /\ pc[j] = "requestPermissionsAsync"
    /\ Catch(j, "CallThrew")
    /\ UNCHANGED <<rendered, osPermission, nJobs, url, tabName, asset,
                   xfer, warned>>
    /\ UNCHANGED libVars
    /\ UNCHANGED pluckVars

\* progressCallback: the transfer of job j reports (written, expected).  The
\* callback is subscribed when the transfer starts and nothing in the
\* handler unsubscribes it, so an event can be delivered at any time after
\* the transfer was opened.
ProgressCallback(j, ev) ==
    /\ xfer[j] # "none"
    /\ downloads' = SetEntry(downloads, url[j], JsDivide(ev[1], ev[2]))
    /\ UNCHANGED <<isDownloading, rendered, osPermission>>
    /\ UNCHANGED jobVars
    /\ UNCHANGED libVars
    /\ UNCHANGED pluckVars

\* await downloadResumable.downloadAsync() settles: "result", "null" or
\* "threw".  The transfer writes to fileUri: a result leaves the file there,
\* a transfer that ends without one may or may not leave what it has written
\* (left); the handler never deletes anything.
DownloadAsyncSettles(j, outcome, left) ==
    /\ pc[j] = "downloadAsync"
    /\ outcome = "result" => left
    /\ xfer' = [xfer EXCEPT ![j] = outcome]
    /\ files' = IF left THEN files \cup {Filename(url[j])} ELSE files
    /\ IF outcome = "threw"
       THEN Catch(j, "CallThrew")
       ELSE IF NoResult(outcome)
       THEN Catch(j, "Failed")
       ELSE /\ pc' = [pc EXCEPT ![j] = "createAssetAsync"]
            /\ UNCHANGED <<isDownloading, downloads, result, alerts>>
    /\ UNCHANGED <<rendered, osPermission, nJobs, url, tabName, asset,
                   warned, assets, albums>>
    /\ UNCHANGED pluckVars

\* asset = await MediaLibrary.createAssetAsync(result.uri) settles
CreateAssetAsyncSettles(j, ok) ==
    /\ pc[j] = "createAssetAsync"
    /\ IF ok
       THEN /\ asset' = [asset EXCEPT ![j] = j]
            /\ assets' = assets \cup {j}
            /\ pc' = [pc EXCEPT ![j] = "getAlbumAsync"]
            /\ UNCHANGED <<isDownloading, downloads, result, alerts>>
       ELSE /\ Catch(j, "CallThrew")
            /\ UNCHANGED <<asset, assets>>
    /\ UNCHANGED <<rendered, osPermission, nJobs, url, tabName, xfer,
                   warned, albums, files>>
    /\ UNCHANGED pluckVars

\* an album call threw: the inner catch warns and the success path goes on
AlbumError(j) ==
    IF AlbumErrorCaught
    THEN /\ warned' = [warned EXCEPT ![j] = TRUE]
         /\ Succeed(j)
    ELSE /\ Catch(j, "CallThrew")
         /\ UNCHANGED warned

\* let album = await MediaLibrary.getAlbumAsync(albumName) settles
GetAlbumAsyncSettles(j, ok) ==
    /\ pc[j] = "getAlbumAsync"
    /\ IF ok
       THEN /\ pc' = [pc EXCEPT ![j] =
                        IF AlbumName(tabName[j]) \in DOMAIN albums
                        THEN "addAssetsToAlbumAsync" ELSE "createAlbumAsync"]
            /\ UNCHANGED <<isDownloading, downloads, result, alerts, warned>>
       ELSE AlbumError(j)
    /\ UNCHANGED <<rendered, osPermission, nJobs, url, tabName, asset,
                   xfer>>
    /\ UNCHANGED libVars
    /\ UNCHANGED pluckVars

\* await MediaLibrary.createAlbumAsync(albumName, asset, false) settles
CreateAlbumAsyncSettles(j, ok) ==
    /\ pc[j] = "createAlbumAsync"
    /\ IF ok
       THEN /\ albums' = [n \in (DOMAIN albums) \cup {AlbumName(tabName[j])} |->
                            IF n = AlbumName(tabName[j])
                            THEN (IF n \in DOMAIN albums THEN albums[n] ELSE {}) \cup {asset[j]}
                            ELSE albums[n]]
            /\ Succeed(j)
            /\ UNCHANGED warned
       ELSE /\ AlbumError(j)
            /\ UNCHANGED albums
    /\ UNCHANGED <<rendered, osPermission, nJobs, url, tabName, asset,
                   xfer, assets, files>>
    /\ UNCHANGED pluckVars

\* await MediaLibrary.addAssetsToAlbumAsync([asset], album, false) settles
AddAssetsToAlbumAsyncSettles(j, ok) ==
    /\ pc[j] = "addAssetsToAlbumAsync"
    /\ IF ok
       THEN /\ albums' = [albums EXCEPT ![AlbumName(tabName[j])] = @ \cup {asset[j]}]
            /\ Succeed(j)
            /\ UNCHANGED warned
       ELSE /\ AlbumError(j)
            /\ UNCHANGED albums
    /\ UNCHANGED <<rendered, osPermission, nJobs, url, tabName, asset,
                   xfer, assets, files>>
    /\ UNCHANGED pluckVars

\* links the text input can hold when handlePluck runs
UrlPage == <<"https:", "x.com", "/", "page">>
UrlSong == <<"https:", "x.com", "/", "song", ".mp3">>
UrlMovie == <<"https:", "x.com", "/", "v", "/", "movie", ".MKV">>
UrlNoScheme == <<"x.com", "/", "song", ".mp3">>
PluckLinks == {<<>>, UrlImage, UrlPage}
AllPluckLinks == PluckLinks \cup {UrlSong, UrlMovie, UrlNoScheme, UrlBad}

\* tags a fetched page can hold
Tag(name, attrs) == [tag |-> name, attrs |-> attrs]

Elements ==
    { Tag("img", <<<<"src", <<"a", ".jpg">>>>>>),
      Tag("img", <<<<"src", <<"/", "a", ".jpg">>>>>>),
      Tag("img", <<<<"srcset", <<"a", ".jpg", " ", "1x", ",", " ", "b", ".jpg", " ", "2x">>>>,
                   <<"src", <<"b", ".jpg">>>>>>),
      Tag("img", <<<<"srcset", <<"a", ".jpg", " ", "1x", ",", " ", "b", ".jpg", " ", "2x">>>>>>),
      Tag("img", <<<<"src", <<"photo">>>>>>),
      Tag("img", <<<<"data-src", <<"img", "/", "x", ".png">>>>>>),
      Tag("img", <<<<"src", <<"//", "a.com", "/", "x", ".png">>>>>>),
      Tag("img", <<<<"src", <<"a", ".jpg", "?v=1">>>>>>),
      Tag("img", <<<<"src", <<"a", ".JPG">>>>>>),
      Tag("video", <<<<"poster", <<"a", ".jpg">>>>, <<"src", <<"v", ".mp4">>>>>>),
      Tag("audio", <<<<"src", <<"s", ".Mp3">>>>>>),
      Tag("source", <<<<"srcset", <<"x", ".php">>>>>>),
      Tag("a", <<<<"href", <<"v", ".MKV">>>>>>),
      Tag("a", <<<<"href", <<"x", ".php">>>>>>),
      Tag("a", <<<<"href", <<"https:", "site.com", "/", "a", ".jpg">>>>>>),
      Tag("div", <<<<"style", <<"a", ".jpg">>>>>>),
      Tag("a", <<<<"href", <<"ftp:", "[bad", "/", "z", ".jpg">>>>>>),
      Tag("img", <<<<"srcset", <<"c", ".jpg">>>>,
                   <<"src", <<"ftp:", "[bad", "/", "z", ".jpg">>>>>>),
      Tag("img", <<<<"src", <<>>>>, <<"data-src", <<"d", ".jpg">>>>>>),
      Tag("img", <<<<"srcset", <<"v", ".mp4">>>>>>),
      Tag("video", <<<<"src", <<"v", ".mp4">>>>>>) }

\* tags in a fetched page
MaxElems == 2

Pages == UNION {[1..n -> Elements] : n \in 0..MaxElems}

\* response.url
BaseUrls == {<<"https:", "site.com", "/", "page">>,
             <<"http:", "site.com", "/", "dir", "/", "page">>}

\* the responses a fetch can resolve with
AllResponses == [html : Pages, url : BaseUrls]

\* the responses of the requests made while downloads run
Responses ==
    { [html |-> <<Tag("img", <<<<"src", <<"a", ".jpg">>>>>>)>>,
       url |-> <<"https:", "site.com", "/", "page">>] }

\* handlePluck up to its first await.  A blank link only alerts.  Otherwise
\* setIsLoading(true) and setDownloads({}); a direct media link is placed at
\* once and the finally block runs in the same turn; any other link empties
\* the media set and waits for fetch(link).
HandlePluck(link) ==
    /\ link # <<>>
    /\ downloads' = EmptyTracker
    /\ page' = NoPage
    /\ failedAlerts' = 0
    /\ staleMedia' = FALSE
    /\ IF GetDirectMediaCategory(link) # "null"
       THEN /\ media' = DirectMedia(link, GetDirectMediaCategory(link))
            /\ isLoading' = FALSE
            /\ newestPending' = FALSE
            /\ UNCHANGED plucksInFlight
       ELSE /\ plucksInFlight < MaxPlucks
            /\ media' = EmptyMedia
            /\ isLoading' = TRUE
            /\ newestPending' = TRUE
            /\ plucksInFlight' = plucksInFlight + 1
    /\ UNCHANGED <<isDownloading, rendered, osPermission>>
    /\ UNCHANGED jobVars
    /\ UNCHANGED libVars

\* The waiting call that continues: the one submitted last (newest) or one
\* submitted before it.  The calls wait for independent fetches, which
\* settle in any order.
Continues(newest) ==
    /\ IF newest THEN newestPending
       ELSE plucksInFlight > (IF newestPending THEN 1 ELSE 0)
    /\ plucksInFlight' = plucksInFlight - 1
    /\ newestPending' = (newestPending /\ ~newest)

\* a catch block that shows nothing
CatchSilent(shown) == shown

\* the catch block of handlePluck: one Alert.alert call
CatchAlert(shown) == shown + 1

\* fetch(link) and response.text() resolved: the page is scanned, its
\* references resolved against response.url, the media set replaced; the
\* finally block
FetchSettles(response) ==
    /\ \E newest \in BOOLEAN : Continues(newest) /\ staleMedia' = ~newest
    /\ media' = PluckedMedia(response.html, response.url)
    /\ page' = response
    /\ isLoading' = FALSE
    /\ UNCHANGED failedAlerts
    /\ UNCHANGED <<isDownloading, rendered, downloads, osPermission>>
    /\ UNCHANGED jobVars
    /\ UNCHANGED libVars

\* fetch(link) or response.text() rejected: the catch block and the finally
\* block
FetchFails ==
    /\ \E newest \in BOOLEAN : Continues(newest)
    /\ failedAlerts' = CatchAlert(failedAlerts)
    /\ isLoading' = FALSE
    /\ UNCHANGED <<isDownloading, rendered, downloads, osPermission, media, page,
                   staleMedia>>
    /\ UNCHANGED jobVars
    /\ UNCHANGED libVars

\* the download orchestrator and its environment
NextDownload ==
    \/ Render
    \/ \E os \in OsPermissions : SettingsChange(os)
    \/ HandleDownloadBusy
    \/ \E in \in DownloadInputs : HandleDownload(in[1], in[2])
    \/ \E j \in JobIds : GetPermissionsAsyncReturns(j)
    \/ \E j \in JobIds : GetPermissionsAsyncThrows(j)
    \/ \E j \in JobIds, os \in OsPermissions : RequestPermissionsAsyncReturns(j, os)
    \/ \E j \in JobIds : RequestPermissionsAsyncThrows(j)
    \/ \E j \in JobIds, ev \in ProgressEvents : ProgressCallback(j, ev)
    \/ \E j \in JobIds, o \in {"result", "null", "threw"}, left \in BOOLEAN :
            DownloadAsyncSettles(j, o, left)
    \/ \E j \in JobIds, ok \in BOOLEAN : CreateAssetAsyncSettles(j, ok)
    \/ \E j \in JobIds, ok \in BOOLEAN : GetAlbumAsyncSettles(j, ok)
    \/ \E j \in JobIds, ok \in BOOLEAN : CreateAlbumAsyncSettles(j, ok)
    \/ \E j \in JobIds, ok \in BOOLEAN : AddAssetsToAlbumAsyncSettles(j, ok)

\* the whole component: downloads and page extractions
Next ==
    \/ NextDownload
    \/ \E link \in PluckLinks : HandlePluck(link)
    \/ \E response \in Responses : FetchSettles(response)
    \/ FetchFails

Spec == Init /\ [][Next]_vars

\* page extraction alone, one request at a time, over every page
NextExtract ==
    \/ \E link \in AllPluckLinks : plucksInFlight = 0 /\ HandlePluck(link)
    \/ plucksInFlight > 0 /\ \E response \in AllResponses : FetchSettles(response)
    \/ FetchFails

SpecExtract == Init /\ [][NextExtract]_vars

\* the download orchestrator alone: no page extraction is requested
SpecDownload == Init /\ [][NextDownload]_vars

\* the awaited call job j is suspended at returns or throws
CallSettles(j) ==
    \/ GetPermissionsAsyncReturns(j)
    \/ GetPermissionsAsyncThrows(j)
    \/ \E os \in OsPermissions : RequestPermissionsAsyncReturns(j, os)
    \/ RequestPermissionsAsyncThrows(j)
    \/ \E o \in {"result", "null", "threw"}, left \in BOOLEAN : DownloadAsyncSettles(j, o, left)
    \/ \E ok \in BOOLEAN : CreateAssetAsyncSettles(j, ok)
    \/ \E ok \in BOOLEAN : GetAlbumAsyncSettles(j, ok)
    \/ \E ok \in BOOLEAN : CreateAlbumAsyncSettles(j, ok)
    \/ \E ok \in BOOLEAN : AddAssetsToAlbumAsyncSettles(j, ok)

\* the jobs by themselves: start requests, renders and the awaited calls;
\* the permission changes through the prompts only and no progress event is
\* delivered
NextLive ==
    \/ Render
    \/ HandleDownloadBusy
    \/ \E in \in DownloadInputs : HandleDownload(in[1], in[2])
    \/ \E j \in JobIds : CallSettles(j)

\* every awaited call eventually returns or throws; nothing else is
\* required to happen
SpecLive == Init /\ [][NextLive]_vars /\ \A j \in JobIds : WF_vars(CallSettles(j))

\* responses of the overlapping requests: the pages of at most one tag
SampleResponses == {response \in AllResponses : Len(response.html) <= 1}

\* page extraction alone, requests overlapping: the submit action of the
\* text input calls handlePluck while another call waits for its fetch
NextPluck ==
    \/ \E link \in AllPluckLinks : HandlePluck(link)
    \/ \E response \in SampleResponses : FetchSettles(response)
    \/ FetchFails

SpecPluck == Init /\ [][NextPluck]_vars

\* tokens of a srcset value: text, blanks, commas, a descriptor
SrcsetTokens == {"a", "b", " ", ",", "2x"}

\* tokens in a srcset value
MaxSrcset == 4

SrcsetValues == UNION {[1..n -> SrcsetTokens] : n \in 0..MaxSrcset}

\* a page whose only reference is the srcset value of an img tag
SrcsetResponse(srcsetValue) ==
    [html |-> <<Tag("img", <<<<"srcset", srcsetValue>>>>)>>,
     url |-> <<"https:", "site.com", "/", "page">>]

\* page extraction over every srcset value, one request at a time
NextSrcset ==
    \/ plucksInFlight = 0 /\ HandlePluck(UrlPage)
    \/ plucksInFlight > 0 /\
            \E srcsetValue \in SrcsetValues : FetchSettles(SrcsetResponse(srcsetValue))

SpecSrcset == Init /\ [][NextSrcset]_vars

\* ================================================================ claims
OccupiedJobs == {j \in JobIds : JobState(j) \in Occupied}

\* job j takes its last step: handleDownload returns
Ends(j) == pc[j] # "done" /\ pc'[j] = "done"

\* C1: in every reachable state at most one job is Downloading, Finalizing
\* or Filing.
C1_SingleFlight == Cardinality(OccupiedJobs) <= 1

\* C2: a start request issued while a job is Downloading, Finalizing or
\* Filing is rejected: it starts no job and leaves the jobs, the lock and
\* the tracker as they were.
C2_BusyWhileOccupied ==
    [][OccupiedJobs # {} /\ nJobs' # nJobs => UNCHANGED <<pc, isDownloading, downloads>>]_vars

\* C3: a job that ends, on whatever path, leaves the lock released: the step
\* that ends it writes the lock free, the lock is free whenever no job is in
\* flight, and a render of that state re-creates the handlers with the lock
\* free, so that the next start request is accepted.
C3_LockReleased ==
    /\ []((\A j \in JobIds : ~InFlight(j)) => ~isDownloading)
    /\ [][\A j \in JobIds : Ends(j) => ~isDownloading']_vars
    /\ [][(\A j \in JobIds : ~InFlight(j)) /\ rendered' # rendered => ~BusyGuard(rendered')]_vars

\* a job failed, the lock was released and rendered, and the next start
\* request was accepted
C3_Witness ==
    /\ pc[1] = "done" /\ result[1] \in {"Failed", "CallThrew"}
    /\ xfer[1] = "threw"
    /\ pc[2] = "getPermissionsAsync"

\* C4: once a job for url u has ended, and while no job for u is Downloading,
\* Finalizing or Filing, the tracker holds no entry for u.
C4_NoEntryAfterTerminal ==
    \A u \in Urls :
        ( /\ \E j \in JobIds : url[j] = u /\ pc[j] = "done"
          /\ ~\E j \in JobIds : url[j] = u /\ JobState(j) \in Occupied )
        => u \notin DOMAIN downloads

\* C5: the tracker holds at most one entry.
C5_AtMostOneEntry == Cardinality(DOMAIN downloads) <= 1

\* the successor of each orchestrator state on the way to Succeeded
NextState(a) ==
    CASE a = "Pending" -> "RequestingPermission"
      [] a = "RequestingPermission" -> "Downloading"
      [] a = "Downloading" -> "Finalizing"
      [] a = "Finalizing" -> "Filing"
      [] a = "Filing" -> "Succeeded"
      [] OTHER -> "none"

\* C6: a job changes state only to the next state of the sequence
\* RequestingPermission, Downloading, Finalizing, Filing, Succeeded, or from
\* a state in flight to Failed; an asset is registered only by a job whose
\* transfer completed with a result, and a job is in Filing, or has an asset
\* in an album, only after its asset was registered.
C6_Sequential ==
    /\ [][\A j \in JobIds :
            pc'[j] # pc[j] /\ JobState(j)' # JobState(j) =>
                \/ JobState(j)' = NextState(JobState(j))
                \/ InFlight(j) /\ JobState(j)' = "Failed"]_vars
    /\ [][\A j \in JobIds : j \in assets' \ assets =>
            JobState(j) = "Finalizing" /\ xfer[j] = "result"]_vars
    /\ [](\A j \in JobIds :
            /\ JobState(j) \in {"Filing", "Succeeded"} =>
                    xfer[j] = "result" /\ asset[j] = j /\ j \in assets
            /\ \A n \in DOMAIN albums : albums[n] \subseteq assets)

\* a job went through every state and its asset is filed in its album
C6_Witness ==
    \E j \in JobIds :
        /\ JobState(j) = "Succeeded" /\ ~warned[j]
        /\ AlbumName(tabName[j]) \in DOMAIN albums
        /\ asset[j] \in albums[AlbumName(tabName[j])]

\* the permission check of job j returns, the prompt of job j is answered
CheckReturns(j) ==
    pc[j] = "getPermissionsAsync" /\ pc'[j] # pc[j] /\ result'[j] # "CallThrew"
PromptAnswered(j) ==
    pc[j] = "requestPermissionsAsync" /\ pc'[j] # pc[j] /\ result'[j] # "CallThrew"

\* the prompt is issued once, by the check that finds the permission not
\* granted and askable; a refused prompt ends the job as PermissionDenied
\* with the lock released, no transfer, no tracker entry and no asset
C7_PromptAndRefusal ==
    /\ [][\A j \in JobIds :
            /\ CheckReturns(j) /\ osPermission = "askable" =>
                    pc'[j] = "requestPermissionsAsync"
            /\ pc'[j] = "requestPermissionsAsync" /\ pc[j] # pc'[j] =>
                    pc[j] = "getPermissionsAsync" /\ osPermission = "askable"
            /\ PromptAnswered(j) /\ osPermission' # "granted" =>
                    /\ Ends(j) /\ result'[j] = "PermissionDenied"
                    /\ alerts'[j] = <<AlertGrant>>
                    /\ ~isDownloading'
                    /\ xfer'[j] = "none"
                    /\ url[j] \notin DOMAIN downloads'
                    /\ asset'[j] = 0 /\ j \notin assets']_vars
    /\ [](\A j \in JobIds : result[j] = "PermissionDenied" =>
            xfer[j] = "none" /\ asset[j] = 0 /\ j \notin assets)

\* C7 as stated: when the permission is not granted and can be asked for,
\* exactly one prompt is issued; a prompt that is not granted ends the job
\* as Failed(PermissionDenied) with the lock released, no transfer, no
\* tracker entry and no asset; a granted prompt takes the job to Downloading.
C7_GrantedDownloads ==
    /\ C7_PromptAndRefusal
    /\ [][\A j \in JobIds : PromptAnswered(j) /\ osPermission' = "granted" =>
            JobState(j)' = "Downloading"]_vars

\* C7, amended: as above, but a granted prompt takes the job to Downloading
\* only when its url parses; with an unparsable url the job ends Failed
\* through the catch block, with the failure alert, the lock released and
\* no transfer.
C7_GrantedDownloadsIfUrlParses ==
    /\ C7_PromptAndRefusal
    /\ [][\A j \in JobIds : PromptAnswered(j) /\ osPermission' = "granted" =>
            IF UrlParses(url[j])
            THEN JobState(j)' = "Downloading" /\ xfer'[j] = "open"
            ELSE /\ Ends(j) /\ result'[j] = "Failed"
                 /\ alerts'[j] = <<AlertFailed>>
                 /\ ~isDownloading' /\ xfer'[j] = "none"]_vars

\* one job was refused at the prompt; the next was granted at the prompt and
\* failed on its unparsable url
C7_Witness ==
    /\ result[1] = "PermissionDenied" /\ alerts[1] = <<AlertGrant>>
    /\ result[2] = "Failed" /\ url[2] = UrlBad /\ xfer[2] = "none"
    /\ osPermission = "granted"
    /\ ~isDownloading

\* C8: when the check finds the permission not granted and not askable, the
\* job ends in that step as PermissionBlocked: no prompt is issued, no
\* transfer is opened, the lock is released, and the alert sends the user to
\* the device settings, unlike the alert of a refused prompt.
C8_Blocked ==
    /\ [][\A j \in JobIds : CheckReturns(j) /\ osPermission = "blocked" =>
            /\ Ends(j) /\ result'[j] = "PermissionBlocked"
            /\ alerts'[j] = <<AlertSettings>>
            /\ ~isDownloading'
            /\ xfer'[j] = "none"]_vars
    /\ [](/\ AlertSettings # AlertGrant
          /\ \A j \in JobIds : result[j] = "PermissionBlocked" =>
                xfer[j] = "none" /\ asset[j] = 0 /\ alerts[j] = <<AlertSettings>>)

\* a job ended as PermissionBlocked and the lock is free
C8_Witness ==
    \E j \in JobIds :
        /\ result[j] = "PermissionBlocked" /\ alerts[j] = <<AlertSettings>>
        /\ ~isDownloading

\* C9: a job in Filing ends only as Succeeded, with the success alert alone,
\* the lock released and its tracker entry removed; when its album call
\* failed, leaving the albums as they were, the failure is only logged.
C9_FilingFailureSucceeds ==
    [][\A j \in JobIds : JobState(j) = "Filing" /\ Ends(j) =>
            /\ result'[j] = "Succeeded"
            /\ alerts'[j] = <<AlertSuccess>>
            /\ ~isDownloading'
            /\ url[j] \notin DOMAIN downloads'
            /\ j \in assets'
            /\ (albums' = albums => warned'[j])]_vars

\* an album call of a job failed and the job ended Succeeded
C9_Witness ==
    \E j \in JobIds :
        /\ warned[j] /\ result[j] = "Succeeded"
        /\ \A n \in DOMAIN albums : asset[j] \notin albums[n]

\* the alert that goes with each way a job ends
TerminalAlert(res) ==
    CASE res = "Succeeded" -> AlertSuccess
      [] res = "PermissionDenied" -> AlertGrant
      [] res = "PermissionBlocked" -> AlertSettings
      [] OTHER -> AlertFailed

\* C10: a job that has ended has shown exactly one terminal alert, the one
\* of its result, and a job that has not ended has shown none; the alerts of
\* a job change only in the step that ends it, so a rejected start request
\* adds none.
C10_OneTerminalEvent ==
    /\ [](\A j \in JobIds :
            IF pc[j] = "done"
            THEN alerts[j] = <<TerminalAlert(result[j])>>
            ELSE alerts[j] = <<>> /\ result[j] = "none")
    /\ [][\A j \in JobIds : alerts'[j] # alerts[j] => Ends(j)]_vars

\* one job ended Succeeded and another ended on a refused permission
C10_Witness ==
    \E j, k \in JobIds :
        /\ result[j] = "Succeeded" /\ alerts[j] = <<AlertSuccess>>
        /\ result[k] \in {"PermissionDenied", "PermissionBlocked"}
        /\ Len(alerts[k]) = 1

\* C11: a job whose transfer gave no result or threw has ended Failed, has
\* registered no asset, so that it never reached the album block, and has
\* left no file at its target path.
C11_TransferFailureLeavesNothing ==
    \A j \in JobIds :
        pc[j] = "done" /\ xfer[j] \in {"null", "threw"} =>
            /\ JobState(j) = "Failed"
            /\ asset[j] = 0 /\ j \notin assets
            /\ Filename(url[j]) \notin files

\* C12: a step of anything but handleDownload and its progress callback, a
\* page-extraction request in particular, leaves the lock and the tracker as
\* they were.
C12_OnlyOrchestratorWrites ==
    [][(\/ \E link \in PluckLinks : HandlePluck(link)
        \/ \E response \in Responses : FetchSettles(response)
        \/ FetchFails
        \/ Render
        \/ \E os \in OsPermissions : SettingsChange(os))
       => UNCHANGED <<isDownloading, downloads>>]_vars

\* C13: every progress value in the tracker is a fraction between 0 and 1:
\* never negative, greater than one, or the quotient of a division by zero.
C13_ProgressIsFraction ==
    \A u \in DOMAIN downloads :
        /\ downloads[u].den > 0
        /\ 0 <= downloads[u].num
        /\ downloads[u].num <= downloads[u].den

\* ---------------------------------------------------- claims on extraction
Categories == {"images", "audios", "videos"}

Range(list) == {list[i] : i \in 1..Len(list)}

NoDuplicates(list) == \A i, j \in 1..Len(list) : i < j => list[i] # list[j]

\* a page was fetched and the media set was built from it
Extracted == page # NoPage

\* C14: after a page extraction no URL occurs twice within one category of
\* the media set.
C14_NoDuplicateAfterResolution ==
    Extracted => \A c \in Categories : NoDuplicates(media[c])

\* The references written in the markup, in the order they are written: the
\* src, data-src, poster and data-lazy-src values of img, video, audio and
\* source tags, the candidates of srcset and data-srcset values, the hrefs
\* of anchors that end in a media extension, the style backgrounds that end
\* in an image extension.
AttrReferences(tag, attr) ==
    IF attr[1] \in {"src", "data-src", "poster", "data-lazy-src"}
          /\ tag \in {"img", "video", "audio", "source"} /\ attr[2] # <<>>
    THEN <<attr[2]>>
    ELSE IF attr[1] \in {"srcset", "data-srcset"} THEN ParseSrcset(attr[2])
    ELSE IF attr[1] = "href" /\ tag = "a" /\ EndsWithExtension(attr[2], AllExtensions)
    THEN <<attr[2]>>
    ELSE IF attr[1] = "style" /\ EndsWithExtension(attr[2], PARSER_IMAGE_EXTENSIONS)
    THEN <<attr[2]>>
    ELSE <<>>

TagReferences(e) ==
    Concat([k \in 1..Len(e.attrs) |-> AttrReferences(e.tag, e.attrs[k])])

References(html) == Concat([k \in 1..Len(html) |-> TagReferences(html[k])])

\* the place of the first occurrence of a reference in a list that holds it
FirstIndex(list, x) ==
    CHOOSE i \in 1..Len(list) : list[i] = x /\ \A k \in 1..(i - 1) : list[k] # x

\* C15: within each category of the result of extractMedia the references
\* are in the order of their first occurrence in the markup, each once.
C15_FirstOccurrenceOrder ==
    Extracted =>
        LET refs == References(page.html) IN
        \A c \in Categories :
            LET list == ExtractMedia(page.html)[c] IN
            /\ NoDuplicates(list)
            /\ \A i \in 1..Len(list) : list[i] \in Range(refs)
            /\ \A i, j \in 1..Len(list) :
                    i < j => FirstIndex(refs, list[i]) < FirstIndex(refs, list[j])

\* the category of a tag
TagCategory(tag) ==
    CASE tag = "img" -> "images" [] tag = "audio" -> "audios" [] tag = "video" -> "videos"
      [] OTHER -> ""

\* the references that carry a tag hint: the src, data-src, poster and
\* data-lazy-src values of img, audio and video tags
Hinted(html, c) ==
    {html[k].attrs[a][2] : <<k, a>> \in
        {ka \in (1..Len(html)) \X (1..3) :
            /\ ka[2] <= Len(html[ka[1]].attrs)
            /\ TagCategory(html[ka[1]].tag) = c
            /\ html[ka[1]].attrs[ka[2]][1] \in {"src", "data-src", "poster", "data-lazy-src"}
            /\ html[ka[1]].attrs[ka[2]][2] # <<>>}}

\* C16: a reference in a src, data-src, poster or data-lazy-src attribute of
\* an img, audio or video tag is in the category of its tag.
C16_TagHintWins ==
    Extracted =>
        \A c \in Categories : Hinted(page.html, c) \subseteq Range(ExtractMedia(page.html)[c])

\* the category of a reference by its extension, "" when it has none of the
\* recognized ones
ExtensionCategory(u) ==
    LET ext == ToLowerCase(ExtensionMatch(u)) IN
    IF ext \in IMAGE_EXTENSIONS THEN "images"
    ELSE IF ext \in AUDIO_EXTENSIONS THEN "audios"
    ELSE IF ext \in VIDEO_EXTENSIONS THEN "videos"
    ELSE ""

\* C17: a reference that carries no tag hint is in a category only if its
\* extension is in that category's set: a reference with an unrecognized
\* extension is in none, srcset candidates included.
C17_ExtensionOnly ==
    Extracted =>
        \A c \in Categories : \A u \in Range(ExtractMedia(page.html)[c]) :
            \/ \E h \in Categories : u \in Hinted(page.html, h)
            \/ ExtensionCategory(u) = c

\* the same token with the letter case of an extension changed
SwapCase(tok) ==
    CASE tok = ".jpg" -> ".JPG" [] tok = ".JPG" -> ".jpg"
      [] tok = ".mkv" -> ".MKV" [] tok = ".MKV" -> ".mkv"
      [] tok = ".mp3" -> ".Mp3" [] tok = ".Mp3" -> ".mp3"
      [] OTHER -> tok

SwapCaseUrl(u) == [i \in 1..Len(u) |-> SwapCase(u[i])]

SwapCaseHtml(html) ==
    [k \in 1..Len(html) |->
        [tag |-> html[k].tag,
         attrs |-> [a \in 1..Len(html[k].attrs) |->
                      <<html[k].attrs[a][1], SwapCaseUrl(html[k].attrs[a][2])>>]]]

\* the media set was built from a direct media link
Direct == page = NoPage /\ media # EmptyMedia

\* C18: changing the letter case of the extensions changes no category: a
\* direct link is in the category its case-changed form is classified as,
\* and the extractor places the case-changed references of the case-changed
\* markup in the categories in which it places the references of the markup.
C18_CaseInsensitive ==
    /\ Direct =>
        \A c \in Categories : \A u \in Range(media[c]) :
            /\ DirectMedia(u, GetDirectMediaCategory(SwapCaseUrl(u))) = media
            /\ GetDirectMediaCategory(SwapCaseUrl(u)) = GetDirectMediaCategory(u)
    /\ Extracted =>
        \A c \in Categories :
            {SwapCaseUrl(u) : u \in Range(ExtractMedia(page.html)[c])}
                = Range(ExtractMedia(SwapCaseHtml(page.html))[c])

\* a page whose anchor has an upper-case extension was extracted, the link
\* placed in videos
C18_Witness ==
    /\ Extracted
    /\ page.html = <<Tag("a", <<<<"href", <<"v", ".MKV">>>>>>)>>
    /\ Len(media.videos) = 1 /\ media.images = <<>> /\ media.audios = <<>>

\* the link ends in an extension of one of the three lists
HasMediaExtension(link) ==
    /\ link # <<>>
    /\ ToLowerCase(link[Len(link)]) \in
            IMAGE_EXTENSIONS \cup AUDIO_EXTENSIONS \cup VIDEO_EXTENSIONS

\* handlePluck(link) takes the fast path: no fetch is started, and the media
\* set holds the link alone, in the category of its extension
FastPath(link) ==
    /\ plucksInFlight' = plucksInFlight
    /\ ~isLoading'
    /\ media' = [c \in Categories |->
                    IF c = ExtensionCategory(link) THEN <<link>> ELSE <<>>]

\* C19 as stated: a request whose input has a recognized media extension
\* starts no fetch and leaves the media set holding that input alone, in
\* the matching category.
C19_FastPathByExtension ==
    [][\A link \in AllPluckLinks :
            HandlePluck(link) /\ HasMediaExtension(link) => FastPath(link)]_vars

\* C19, amended: a request whose input parses as a URL and has a recognized
\* media extension starts no fetch and leaves the media set holding that
\* input alone, in the matching category; an input that does not parse as a
\* URL is fetched like a page link, whatever its extension.
C19_FastPathOfParsedLink ==
    [][\A link \in AllPluckLinks :
            /\ HandlePluck(link) /\ HasMediaExtension(link) /\ UrlParses(link)
                    => FastPath(link)
            /\ HandlePluck(link) /\ ~UrlParses(link)
                    => plucksInFlight' = plucksInFlight + 1 /\ media' = EmptyMedia]_vars

\* the direct audio link was submitted: it is the only entry of the media
\* set and nothing is being fetched
C19_Witness ==
    /\ media = [images |-> <<>>, audios |-> <<UrlSong>>, videos |-> <<>>]
    /\ plucksInFlight = 0 /\ ~isLoading

\* C20: every reference of an extracted page is resolved by the first rule
\* that applies: an empty reference is unresolvable; one that starts with
\* http:// or https:// is kept unchanged; one that starts with // becomes
\* https: followed by itself, whatever the scheme of the base; any other is
\* joined to the base, a path that starts with / to the host of the base, a
\* relative path to the directory of the base path; a join that fails gives
\* no URL.
C20_ResolveUrlRules ==
    Extracted =>
        /\ \A c \in Categories :
            LET raw == ExtractMedia(page.html)[c]
                out == [i \in 1..Len(raw) |-> ResolveUrl(page.url, raw[i])]
            IN /\ media[c] = SelectSeq(out, LAMBDA u : u # <<>>)
               /\ \A i \in 1..Len(raw) :
                    IF raw[i] = <<>> THEN out[i] = <<>>
                    ELSE IF raw[i][1] \in {"http:", "https:"} THEN out[i] = raw[i]
                    ELSE IF raw[i][1] = "//"
                    THEN out[i][1] = "https:" /\ Tail(out[i]) = Tail(raw[i])
                    ELSE IF NewUrlThrows(raw[i], page.url) THEN out[i] = <<>>
                    ELSE IF raw[i][1] = "/"
                    THEN out[i] = <<page.url[1], page.url[2]>> \o raw[i]
                    ELSE /\ SubSeq(out[i], 1, 2) = SubSeq(page.url, 1, 2)
                         /\ SubSeq(out[i], Len(out[i]) - Len(raw[i]) + 1, Len(out[i])) = raw[i]
                         /\ Len(out[i]) = Len(page.url) - 1 + Len(raw[i])
        /\ ( /\ page.url = <<"https:", "site.com", "/", "page">>
             /\ page.html = <<Tag("img", <<<<"data-src", <<"img", "/", "x", ".png">>>>>>)>> )
           => media.images = <<<<"https:", "site.com", "/", "img", "/", "x", ".png">>>>

\* a protocol-relative reference was resolved against an http base
C20_Witness ==
    /\ Extracted
    /\ page.url[1] = "http:"
    /\ page.html = <<Tag("img", <<<<"src", <<"//", "a.com", "/", "x", ".png">>>>>>)>>
    /\ media.images = <<<<"https:", "a.com", "/", "x", ".png">>>>

\* ---- C21: references that do not resolve ----

\* the attributes a reference is read from, except srcset
ReferenceAttributes == {"src", "data-src", "poster", "data-lazy-src", "href", "style"}

\* the attribute holds a reference that is empty or that resolveUrl turns
\* into ''
Unresolvable(attr, baseUrl) ==
    /\ attr[1] \in ReferenceAttributes
    /\ ResolveUrl(baseUrl, attr[2]) = <<>>

\* the markup without its unresolvable references (the srcset candidates of
\* the pages considered all resolve)
WithoutUnresolvable(html, baseUrl) ==
    [k \in 1..Len(html) |->
        [tag |-> html[k].tag,
         attrs |-> SelectSeq(html[k].attrs, LAMBDA attr : ~Unresolvable(attr, baseUrl))]]

\* C21: a reference that is empty or does not resolve against the base URL
\* is left out and changes nothing else: the media set of a page is the one
\* of the same page without its unresolvable references, category by
\* category and in the same order.
C21_UnresolvableIgnored ==
    Extracted => media = PluckedMedia(WithoutUnresolvable(page.html, page.url), page.url)

\* ---- C22: a failed fetch ----

NewestFails == FetchFails /\ newestPending /\ ~newestPending'

UrlStart(v, i) ==
    /\ v[i] \notin {" ", ","}
    /\ \E s \in 1..i :
        /\ s = 1 \/ v[s - 1] = ","
        /\ \A k \in s..(i - 1) : v[k] = " "

\* the text that starts at position i, up to the next blank or comma
UrlAt(v, i) ==
    LET ends == {j \in i..Len(v) : \A k \in i..j : v[k] \notin {" ", ","}}
    IN SubSeq(v, i, CHOOSE j \in ends : \A k \in ends : k <= j)

\* the positions where a URL appears for the first time
FirstStarts(v) ==
    {i \in 1..Len(v) :
        /\ UrlStart(v, i)
        /\ \A k \in 1..(i - 1) : UrlStart(v, k) => UrlAt(v, k) # UrlAt(v, i)}

RECURSIVE UrlsFrom(_, _)
\* the URLs at the positions of a set, by increasing position
UrlsFrom(v, positions) ==
    IF positions = {} THEN <<>>
    ELSE LET i == CHOOSE i \in positions : \A k \in positions : i <= k
         IN <<UrlAt(v, i)>> \o UrlsFrom(v, positions \ {i})

\* the reference computation: the leading text of every candidate, once, in
\* order of first appearance
SrcsetReference(v) == UrlsFrom(v, FirstStarts(v))

\* the page extracted is a single img tag with a srcset value
SrcsetPage ==
    /\ Extracted
    /\ Len(page.html) = 1
    /\ Len(page.html[1].attrs) = 1
    /\ page.html[1].attrs[1][1] = "srcset"

\* C23: for every srcset value, parseSrcset returns the leading
\* blank-delimited text of each comma-separated candidate, without the
\* descriptor, skipping empty candidates, each URL once in order of first
\* appearance; the images extracted from the value are these URLs.
C23_ParseSrcsetReference ==
    SrcsetPage =>
        LET v == page.html[1].attrs[1][2] IN
        /\ ParseSrcset(v) = SrcsetReference(v)
        /\ ExtractMedia(page.html).images = SrcsetReference(v)
        /\ media.images = ResolveAll(SrcsetReference(v), page.url)

\* a value with a blank before its first URL and the same URL in its second
\* candidate was decomposed
C23_Witness ==
    /\ SrcsetPage
    /\ page.html[1].attrs[1][2] = <<" ", "a", ",", "a">>
    /\ media.images = <<<<"https:", "site.com", "/", "a">>>>

\* ---- C24: the album of the category ----

\* no album other than the one named n is created or modified by the step
OnlyAlbum(n) ==
    /\ (DOMAIN albums') \ {n} = (DOMAIN albums) \ {n}
    /\ \A m \in (DOMAIN albums) \ {n} : albums'[m] = albums[m]

\* C24: the Filing step of a job started with category c files the asset in
\* the album 'Pluck/' followed by c: the album is created, holding the
\* asset alone, exactly when it does not exist, and the asset is appended to
\* it exactly when it exists; the albums change in no other step and no
\* album of another name is created or modified.
C24_CreateIffAbsent ==
    [][\A j \in JobIds :
        LET n == AlbumName(tabName[j]) IN
        /\ (pc[j] = "createAlbumAsync" /\ pc'[j] # pc[j] /\ albums' # albums) =>
                /\ n \notin DOMAIN albums
                /\ n \in DOMAIN albums' /\ albums'[n] = {asset[j]}
                /\ OnlyAlbum(n)
        /\ (pc[j] = "addAssetsToAlbumAsync" /\ pc'[j] # pc[j] /\ albums' # albums) =>
                /\ n \in DOMAIN albums
                /\ albums'[n] = albums[n] \cup {asset[j]}
                /\ OnlyAlbum(n)
        /\ (pc[j] = "getAlbumAsync" /\ pc'[j] \notin {pc[j], "done"}) =>
                pc'[j] = IF n \in DOMAIN albums THEN "addAssetsToAlbumAsync"
                         ELSE "createAlbumAsync"
        /\ albums' # albums =>
                \E k \in JobIds : /\ pc[k] \in {"createAlbumAsync", "addAssetsToAlbumAsync"}
                                   /\ pc'[k] = "done"]_vars

\* ---- C25: extractMedia keeps no state ----

RequestingJobs == {j \in JobIds : JobState(j) = "RequestingPermission"}

\* C26: the lock is taken when a start request is accepted, before the
\* permission check: while a job is in RequestingPermission the lock is
\* held, a start request is rejected (no job starts) and no second
\* permission prompt is open.
C26_LockBeforePermission ==
    /\ [](RequestingJobs # {} => isDownloading)
    /\ [][RequestingJobs # {} => nJobs' = nJobs]_vars
    /\ [](Cardinality({j \in JobIds : pc[j] = "requestPermissionsAsync"}) <= 1)

\* ---- C27: tracker entries and the lock ----

\* C27: the tracker holds an entry for a url only while the lock is held by
\* a job for that url that is Downloading, Finalizing or Filing: the
\* tracker is empty whenever the lock is free and while a job is in
\* RequestingPermission.
C27_EntryOnlyWhileOccupied ==
    /\ \A u \in DOMAIN downloads :
            /\ isDownloading
            /\ \E j \in JobIds : url[j] = u /\ JobState(j) \in Occupied
    /\ ~isDownloading => downloads = EmptyTracker
    /\ RequestingJobs # {} => downloads = EmptyTracker

\* ---- C28: every job finishes ----

\* C28: provided each awaited call eventually returns or throws, every
\* accepted job eventually reaches a terminal state, with the lock written
\* free by its last step, and the lock is free again and again; no other
\* step is needed for that.
C28_JobsFinish ==
    /\ \A j \in JobIds :
            InFlight(j) ~> (JobState(j) \in Terminal /\ ~isDownloading)
    /\ isDownloading ~> ~isDownloading

\* a job has gone the whole way and left the lock free
C28_Witness ==
    /\ pc[1] = "done" /\ result[1] = "Succeeded"
    /\ ~isDownloading
    /\ \A j \in JobIds : ~InFlight(j)

\* ---- C29: the categories are disjoint ----

\* C29: no URL returned by extractMedia is in more than one of images,
\* audios and videos, and none is in two categories of the media set built
\* from the result.
C29_CategoriesDisjoint ==
    Extracted =>
        \A c \in Categories : \A d \in Categories \ {c} :
            /\ Range(ExtractMedia(page.html)[c]) \cap Range(ExtractMedia(page.html)[d]) = {}
            /\ Range(media[c]) \cap Range(media[d]) = {}

\* ---- C30: overlapping page extractions ----

\* C30: when handlePluck calls overlap, the media set, once all of them
\* have finished, is the one written by the call submitted last, and the
\* loading flag is set in every state in which a call still waits for its
\* fetch.
C30_LastSubmittedWins ==
    /\ plucksInFlight = 0 => ~staleMedia
    /\ plucksInFlight > 0 => isLoading

====
